---------------------------- MODULE Spec2Model ----------------------------
(***************************************************************************)
(* Model of sway-spawn (src/src/main.rs): a one-shot command that toggles  *)
(* a configured application between absent, shown and hidden by asking the *)
(* window manager (through the swaymsg program) for its window tree and    *)
(* then sending one command.                                               *)
(*                                                                         *)
(* Rust Strings are sequences of bytes (naturals below 256), so that the   *)
(* ASCII case folding of eq_ignore_ascii_case and the text produced by     *)
(* format! are computed, not assumed.  Option<T> is a record with a        *)
(* "some" flag.  A serde_json::Value is a record tagged by "t", its        *)
(* content under a field named after the type.                             *)
(***************************************************************************)
EXTENDS Integers, Sequences, FiniteSets, TLC

VARIABLES
    args,         \* arguments of the function under test (unit specifications)
    ret,          \* its result, once applied
    config_file,  \* what is found at ~/.config/spawn/spawn.toml
    app_name,     \* per invocation: the APP argument of the command line
    pc,           \* per invocation: position in main / handle_window
    windows,      \* per invocation: the Vec<SwayWindow> of its snapshot
    ipc,          \* every swaymsg process started so far, oldest first
    stderr,       \* per invocation: messages written to the error stream
    exit_code     \* per invocation: process exit status (-1 while running)

vars == <<args, ret, config_file, app_name, pc, windows, ipc, stderr, exit_code>>

----------------------------------------------------------------------------
(* Option<T> *)

None == [some |-> FALSE]

Some(x) == [some |-> TRUE, v |-> x]

----------------------------------------------------------------------------
(* String literals of the source, as bytes *)

str_exec == <<101, 120, 101, 99>>                                \* "exec"

str_dash_t == <<45, 116>>                                        \* "-t"

str_get_tree == <<103, 101, 116, 95, 116, 114, 101, 101>>        \* "get_tree"

str_focus == <<32, 102, 111, 99, 117, 115>>                      \* " focus"

str_move_scratchpad ==                                   \* " move scratchpad"
    <<32, 109, 111, 118, 101, 32, 115, 99, 114, 97, 116, 99, 104, 112, 97, 100>>

str_title_open == <<91, 116, 105, 116, 108, 101, 61, 34>>        \* [title="

str_app_id_open == <<91, 97, 112, 112, 95, 105, 100, 61, 34>>    \* [app_id="

str_class_open == <<91, 99, 108, 97, 115, 115, 61, 34>>          \* [class="

str_close == <<34, 93>>                                          \* "]

str_opt_title == <<32, 45, 45, 116, 105, 116, 108, 101, 32>>     \* " --title "

str_opt_command ==                                       \* " --command "
    <<32, 45, 45, 99, 111, 109, 109, 97, 110, 100, 32>>

str_con == <<99, 111, 110>>                                      \* "con"

str_floating_con ==                                      \* "floating_con"
    <<102, 108, 111, 97, 116, 105, 110, 103, 95, 99, 111, 110>>

str_workspace == <<119, 111, 114, 107, 115, 112, 97, 99, 101>>   \* "workspace"

----------------------------------------------------------------------------
(* u8::to_ascii_lowercase and str::eq_ignore_ascii_case, as used by        *)
(* matches_identifier                                                      *)

to_ascii_lowercase(b) == IF b \in 65..90 THEN b + 32 ELSE b

eq_case_sensitive(a, b) == a = b

eq_ignore_ascii_case(a, b) ==
    /\ Len(a) = Len(b)
    /\ \A i \in 1..Len(a) : to_ascii_lowercase(a[i]) = to_ascii_lowercase(b[i])

(* enum WindowIdentifier *)
Title(s) == [kind |-> "Title", value |-> s]

AppId(s) == [kind |-> "AppId", value |-> s]

Class(s) == [kind |-> "Class", value |-> s]

(* struct SwayWindow; window_properties is an Option<WindowProperties>,    *)
(* a WindowProperties is [class |-> Option<String>]                        *)
SwayWindow(title, app_id, focused, window_properties, window_type) ==
    [title |-> title, app_id |-> app_id, focused |-> focused,
     window_properties |-> window_properties, window_type |-> window_type]

WindowProperties(class) == [class |-> class]

matches_identifier(w, identifier) ==
    CASE identifier.kind = "Title" ->
            IF w.title.some
            THEN eq_ignore_ascii_case(w.title.v, identifier.value)
            ELSE FALSE
      [] identifier.kind = "AppId" ->
            IF w.app_id.some
            THEN eq_ignore_ascii_case(w.app_id.v, identifier.value)
            ELSE FALSE
      [] identifier.kind = "Class" ->
            IF w.window_properties.some
            THEN IF w.window_properties.v.class.some
                 THEN eq_ignore_ascii_case(w.window_properties.v.class.v,
                                           identifier.value)
                 ELSE FALSE
            ELSE FALSE

----------------------------------------------------------------------------
(* Spawn::is_running, Spawn::is_focused and the three-way branch of        *)
(* handle_window                                                           *)

is_running(ws, identifier) ==
    \E i \in 1..Len(ws) : matches_identifier(ws[i], identifier)

is_focused_any(ws, identifier) ==
    \E i \in 1..Len(ws) : ws[i].focused

is_focused(ws, identifier) ==
    \E i \in 1..Len(ws) :
        IF ~ws[i].focused THEN FALSE ELSE matches_identifier(ws[i], identifier)

aggregate_state(ws, identifier) ==
    IF is_running(ws, identifier)
    THEN IF is_focused(ws, identifier) THEN "PresentFocused"
                                       ELSE "PresentUnfocused"
    ELSE "Absent"

----------------------------------------------------------------------------
(* Spawn::build_startup_command and Spawn::build_criteria.  An AppConfig   *)
(* is [command, is_terminal, identifier, startup_override].                *)

AppConfig(command, is_terminal, identifier, startup_override) ==
    [command |-> command, is_terminal |-> is_terminal,
     identifier |-> identifier, startup_override |-> startup_override]

build_startup_command_terminal_first(self, config) ==
    IF config.is_terminal /\ config.identifier.kind = "Title"
    THEN self.terminal \o str_opt_title \o config.identifier.value
             \o str_opt_command \o config.command
    ELSE IF config.startup_override.some
         THEN config.startup_override.v
         ELSE config.command

build_startup_command(self, config) ==
    IF config.startup_override.some
    THEN config.startup_override.v
    ELSE IF config.is_terminal /\ config.identifier.kind = "Title"
         THEN self.terminal \o str_opt_title \o config.identifier.value
                  \o str_opt_command \o config.command
         ELSE config.command

build_criteria_class_as_app_id(identifier) ==
    CASE identifier.kind = "Title" ->
            str_title_open \o identifier.value \o str_close
      [] identifier.kind = "AppId" ->
            str_app_id_open \o identifier.value \o str_close
      [] identifier.kind = "Class" ->
            str_app_id_open \o identifier.value \o str_close

build_criteria(identifier) ==
    CASE identifier.kind = "Title" ->
            str_title_open \o identifier.value \o str_close
      [] identifier.kind = "AppId" ->
            str_app_id_open \o identifier.value \o str_close
      [] identifier.kind = "Class" ->
            str_class_open \o identifier.value \o str_close

----------------------------------------------------------------------------
(* serde_json::Value and the accessors the source uses on it *)

JNull == [t |-> "null"]

JBool(b) == [t |-> "bool", b |-> b]

JNum(n) == [t |-> "num", n |-> n]

JStr(s) == [t |-> "str", s |-> s]

JArr(a) == [t |-> "arr", a |-> a]

JObj(o) == [t |-> "obj", o |-> o]

(* Value::get(&str): a member of an object, None for anything else *)
get(value, key) ==
    IF value.t = "obj" /\ key \in DOMAIN value.o THEN Some(value.o[key]) ELSE None

(* Option<&Value>::and_then(Value::as_str) *)
as_str(o) == IF o.some /\ o.v.t = "str" THEN Some(o.v.s) ELSE None

(* Option<&Value>::and_then(Value::as_array) *)
as_array(o) == IF o.some /\ o.v.t = "arr" THEN Some(o.v.a) ELSE None

(* Result<T, E> *)
Ok(x) == [ok |-> TRUE, v |-> x]

Err == [ok |-> FALSE]

(* #[derive(Deserialize)] on the fields of SwayWindow and WindowProperties: *)
(* an Option<String> member may be missing or null; a bool or String       *)
(* member must be present and of that type.                                *)
de_option_string(o) ==
    IF ~o.some \/ o.v.t = "null" THEN Ok(None)
    ELSE IF o.v.t = "str" THEN Ok(Some(o.v.s))
    ELSE Err

de_bool(o) == IF o.some /\ o.v.t = "bool" THEN Ok(o.v.b) ELSE Err

de_string(o) == IF o.some /\ o.v.t = "str" THEN Ok(o.v.s) ELSE Err

(* struct WindowProperties: from an object, or (as any derived struct) from *)
(* an array holding exactly its one field                                  *)
de_window_properties(value) ==
    IF value.t = "obj"
    THEN LET class == de_option_string(get(value, "class"))
         IN  IF class.ok THEN Ok(WindowProperties(class.v)) ELSE Err
    ELSE IF value.t = "arr" /\ Len(value.a) = 1
    THEN LET class == de_option_string(Some(value.a[1]))
         IN  IF class.ok THEN Ok(WindowProperties(class.v)) ELSE Err
    ELSE Err

de_option_window_properties(o) ==
    IF ~o.some \/ o.v.t = "null" THEN Ok(None)
    ELSE LET wp == de_window_properties(o.v)
         IN  IF wp.ok THEN Ok(Some(wp.v)) ELSE Err

(* serde_json::from_value::<SwayWindow>(node) for an object node: fields    *)
(* are read under their serde names ("name", "type"), others are ignored    *)
sway_window_from_value(node) ==
    LET title == de_option_string(get(node, "name"))
        app_id == de_option_string(get(node, "app_id"))
        focused == de_bool(get(node, "focused"))
        window_properties ==
            de_option_window_properties(get(node, "window_properties"))
        window_type == de_string(get(node, "type"))
    IN  IF /\ node.t = "obj"
           /\ title.ok /\ app_id.ok /\ focused.ok
           /\ window_properties.ok /\ window_type.ok
        THEN Ok(SwayWindow(title.v, app_id.v, focused.v,
                           window_properties.v, window_type.v))
        ELSE Err

(* extract_windows, first block: the record this node itself contributes *)
window_of_node(node) ==
    LET window_type == as_str(get(node, "type"))
    IN  IF window_type.some
           /\ (window_type.v = str_floating_con \/ window_type.v = str_con)
        THEN LET window == sway_window_from_value(node)
             IN  IF window.ok THEN Some(window.v) ELSE None
        ELSE None

(* extract_windows, second block: the "nodes" children *)
child_nodes(node) ==
    LET nodes == as_array(get(node, "nodes"))
    IN  IF nodes.some THEN nodes.v ELSE <<>>

floating_nodes_ignored(node) == <<>>

(* extract_windows, third block: the "floating_nodes" children *)
floating_nodes(node) ==
    LET floating == as_array(get(node, "floating_nodes"))
    IN  IF floating.some THEN floating.v ELSE <<>>

RECURSIVE extract_windows_stop_at_malformed(_, _)
RECURSIVE extract_each_stop_at_malformed(_, _, _)

(* extract_windows with an early return when a window-bearing node does     *)
(* not decode                                                               *)
extract_windows_stop_at_malformed(node, ws) ==
    LET window_type == as_str(get(node, "type"))
        bearing == window_type.some
                   /\ (window_type.v = str_floating_con \/ window_type.v = str_con)
        own == window_of_node(node)
    IN  IF bearing /\ ~own.some THEN ws
        ELSE LET w1 == IF own.some THEN Append(ws, own.v) ELSE ws
                 w2 == extract_each_stop_at_malformed(child_nodes(node), 1, w1)
             IN  extract_each_stop_at_malformed(floating_nodes(node), 1, w2)

extract_each_stop_at_malformed(children, i, ws) ==
    IF i > Len(children) THEN ws
    ELSE extract_each_stop_at_malformed(
             children, i + 1, extract_windows_stop_at_malformed(children[i], ws))

RECURSIVE extract_windows(_, _)
RECURSIVE extract_each(_, _, _)

(* Spawn::extract_windows(node, windows): the value of `windows` afterwards *)
extract_windows(node, ws) ==
    LET own == window_of_node(node)
        w1 == IF own.some THEN Append(ws, own.v) ELSE ws
        w2 == extract_each(child_nodes(node), 1, w1)
    IN  extract_each(floating_nodes(node), 1, w2)

(* the `for child in ...` loops of extract_windows, from the i-th child on *)
extract_each(children, i, ws) ==
    IF i > Len(children) THEN ws
    ELSE extract_each(children, i + 1, extract_windows(children[i], ws))

(* Spawn::get_windows once swaymsg has returned `stdout`: a document that   *)
(* does not parse is an error, a parsed one is walked by extract_windows    *)
get_windows_of(stdout) ==
    IF stdout.parses THEN Ok(extract_windows(stdout.tree, <<>>)) ELSE Err

----------------------------------------------------------------------------
(* Unit specifications: Init draws the arguments of one function, the one  *)
(* action applies it.  The invocation variables are not used by them.      *)

MaxWindows == 3

MaxNodes == 3

NotApplied == [done |-> FALSE]

Applied(x) == [done |-> TRUE, v |-> x]

NoInvocations ==
    /\ config_file = "unused"
    /\ app_name = <<>>
    /\ pc = <<>>
    /\ windows = <<>>
    /\ ipc = <<>>
    /\ stderr = <<>>
    /\ exit_code = <<>>

inv_vars == <<config_file, app_name, pc, windows, ipc, stderr, exit_code>>

SeqsUpTo(S, n) == UNION {[1..k -> S] : k \in 0..n}

Range(q) == {q[i] : i \in 1..Len(q)}

Count(q, x) == Cardinality({i \in 1..Len(q) : q[i] = x})

(* Strings for the matcher: the empty string, case variants of "a" and     *)
(* "ab", a proper extension "abc", and the pair "[" / "{" whose bytes      *)
(* differ by 0x20 without being letters.                                   *)
StrPool ==
    { <<>>, <<97>>, <<65>>, <<97, 98>>, <<65, 66>>, <<97, 66>>,
      <<97, 98, 99>>, <<91>>, <<123>> }

OptionOf(S) == {None} \cup {Some(x) : x \in S}

Identifiers(S) == {Title(x) : x \in S} \cup {AppId(x) : x \in S}
                      \cup {Class(x) : x \in S}

MatchWindows ==
    { SwayWindow(t, a, f, wp, str_con) :
        t \in OptionOf(StrPool), a \in OptionOf(StrPool), f \in BOOLEAN,
        wp \in OptionOf({WindowProperties(c) : c \in OptionOf(StrPool)}) }

InitMatch ==
    /\ args \in [w : MatchWindows, identifier : Identifiers(StrPool)]
    /\ ret = NotApplied
    /\ NoInvocations

CallMatchesIdentifier ==
    /\ ~ret.done
    /\ ret' = Applied(matches_identifier(args.w, args.identifier))
    /\ UNCHANGED <<args, inv_vars>>

NextMatch == CallMatchesIdentifier

SpecMatch == InitMatch /\ [][NextMatch]_vars

(* Windows for the state resolver: with or without a title "ab", with an   *)
(* app_id "AB" or "a" or none, focused or not.                             *)
ResolveWindows ==
    { SwayWindow(t, a, f, None, str_con) :
        t \in {None, Some(<<97, 98>>)},
        a \in {None, Some(<<65, 66>>), Some(<<97>>)},
        f \in BOOLEAN }

ResolveIdentifiers ==
    { Title(<<97, 98>>), AppId(<<97, 98>>), AppId(<<97>>), Class(<<97, 98>>) }

InitResolve ==
    /\ args \in [windows : SeqsUpTo(ResolveWindows, MaxWindows),
                 identifier : ResolveIdentifiers]
    /\ ret = NotApplied
    /\ NoInvocations

CallAggregateState ==
    /\ ~ret.done
    /\ ret' = Applied(aggregate_state(args.windows, args.identifier))
    /\ UNCHANGED <<args, inv_vars>>

NextResolve == CallAggregateState

SpecResolve == InitResolve /\ [][NextResolve]_vars

(* Configurations for the startup command *)
StartupStrings == { <<102>>, <<102, 32, 45, 108>> }            \* "f", "f -l"

StartupConfigs ==
    { AppConfig(c, t, i, o) :
        c \in StartupStrings, t \in BOOLEAN,
        i \in Identifiers({<<115, 104>>, <<>>}),               \* "sh", ""
        o \in OptionOf({<<>>, <<120>>}) }                      \* "", "x"

InitStartup ==
    /\ args \in [self : {[terminal |-> x] : x \in {<<>>, <<102, 111, 111, 116>>}},
                 config : StartupConfigs]
    /\ ret = NotApplied
    /\ NoInvocations

CallBuildStartupCommand ==
    /\ ~ret.done
    /\ ret' = Applied(build_startup_command(args.self, args.config))
    /\ UNCHANGED <<args, inv_vars>>

NextStartup == CallBuildStartupCommand

SpecStartup == InitStartup /\ [][NextStartup]_vars

(* Tree nodes: what a node holds besides its children, the record it must  *)
(* yield (if any), and whether its type is one of the two window types.    *)
NodeWorkspace ==
    [json |-> [id |-> JNum(1), type |-> JStr(str_workspace),
               name |-> JStr(<<49>>), focused |-> JBool(FALSE)],
     win |-> None, bearing |-> FALSE]

NodeUntyped ==
    [json |-> [id |-> JNum(2), focused |-> JBool(TRUE)],
     win |-> None, bearing |-> FALSE]

NodeCon ==
    [json |-> [id |-> JNum(3), type |-> JStr(str_con), name |-> JStr(<<97>>),
               app_id |-> JNull, focused |-> JBool(FALSE),
               window_properties |-> JObj([class |-> JStr(<<65>>)])],
     win |-> Some(SwayWindow(Some(<<97>>), None, FALSE,
                             Some(WindowProperties(Some(<<65>>))), str_con)),
     bearing |-> TRUE]

NodeFloatingCon ==
    [json |-> [id |-> JNum(4), type |-> JStr(str_floating_con),
               app_id |-> JStr(<<98>>), focused |-> JBool(TRUE)],
     win |-> Some(SwayWindow(None, Some(<<98>>), TRUE, None, str_floating_con)),
     bearing |-> TRUE]

NodeMalformedCon ==
    [json |-> [id |-> JNum(5), type |-> JStr(str_con), name |-> JStr(<<97>>)],
     win |-> None, bearing |-> TRUE]

NodeMalformedFloatingCon ==
    [json |-> [id |-> JNum(6), type |-> JStr(str_floating_con),
               app_id |-> JStr(<<98>>), focused |-> JStr(<<49>>)],
     win |-> None, bearing |-> TRUE]

NodeKinds ==
    {NodeWorkspace, NodeUntyped, NodeCon, NodeFloatingCon, NodeMalformedCon,
     NodeMalformedFloatingCon}

(* A tree of n nodes, flat: node 1 is the root, every later node names its *)
(* parent among the earlier ones and the child list it sits in.            *)
NodeChoices(n) ==
    IF n = 1
    THEN {[kind |-> k, parent |-> 0, list |-> "root"] : k \in NodeKinds}
    ELSE {[kind |-> k, parent |-> q, list |-> l] :
              k \in NodeKinds, q \in 1..(n - 1),
              l \in {"nodes", "floating_nodes"}}

RECURSIVE FlatTrees(_)
FlatTrees(n) ==
    IF n = 0 THEN {<<>>}
    ELSE {Append(f, x) : f \in FlatTrees(n - 1), x \in NodeChoices(n)}

Indices(f) == [j \in 1..Len(f) |-> j]

Children(f, i, l) ==
    SelectSeq(Indices(f), LAMBDA j : f[j].parent = i /\ f[j].list = l)

(* The document of the flat tree f below node i.  "nodes" is always        *)
(* written, "floating_nodes" only when the node has floating children.     *)
RECURSIVE ToJson(_, _)
ToJson(f, i) ==
    LET ns == Children(f, i, "nodes")
        fs == Children(f, i, "floating_nodes")
        nodes == [k \in 1..Len(ns) |-> ToJson(f, ns[k])]
        floating == [k \in 1..Len(fs) |-> ToJson(f, fs[k])]
    IN  JObj(f[i].kind.json @@ ("nodes" :> JArr(nodes))
                 @@ (IF Len(fs) > 0 THEN "floating_nodes" :> JArr(floating)
                                    ELSE <<>>))

InitExtract ==
    /\ \E n \in 1..MaxNodes : \E f \in FlatTrees(n - 1) : \E x \in NodeChoices(n) :
          args = [flat |-> Append(f, x),
                  stdout |-> [parses |-> TRUE, tree |-> ToJson(Append(f, x), 1)]]
    /\ ret = NotApplied
    /\ NoInvocations

CallGetWindows ==
    /\ ~ret.done
    /\ ret' = Applied(get_windows_of(args.stdout))
    /\ UNCHANGED <<args, inv_vars>>

NextExtract == CallGetWindows

SpecExtract == InitExtract /\ [][NextExtract]_vars

----------------------------------------------------------------------------
(* Invocations.  Each is one process running main; the window manager and  *)
(* the swaymsg program are outside the source, so what a swaymsg run       *)
(* returns is any of the outcomes below, chosen anew at every run.         *)

Procs == {"p1", "p2"}

(* A spawn.toml that parses: "foot" hosts the terminal application "fish"  *)
(* (title "sh"); "obsidian" is found by app_id "ob"; "keepassxc" by class  *)
(* "Kp" and is started by the override "x".                                *)
ConfigFile ==
    [terminal |-> <<102, 111, 111, 116>>,
     apps |-> [fish |-> AppConfig(<<102>>, TRUE, Title(<<115, 104>>), None),
               obsidian |-> AppConfig(<<111>>, FALSE, AppId(<<111, 98>>), None),
               keepassxc |-> AppConfig(<<107>>, FALSE, Class(<<75, 112>>),
                                       Some(<<120>>))]]

AppNames == {"fish", "obsidian", "keepassxc", "nope"}

ConfigFileStates == {"missing", "invalid", "valid"}

(* Spawn::new when it returns: the parsed file, or the empty configuration *)
(* when the path is not a file.  ("invalid": the file cannot be read or    *)
(* parsed, or there is no home directory; the unwraps panic.)              *)
spawn_new(file) ==
    IF file = "valid" THEN ConfigFile ELSE [terminal |-> <<>>, apps |-> <<>>]

(* Documents the window manager may report: trees of windows, one of them  *)
(* holding only a window without a focused member, and the document null   *)
Win(type, fields) == JObj(fields @@ ("type" :> JStr(type)) @@ ("nodes" :> JArr(<<>>)))

Root(nodes, floating) ==
    JObj([type |-> JStr(<<114, 111, 111, 116>>), focused |-> JBool(FALSE),
          nodes |-> JArr(<<JObj([type |-> JStr(str_workspace),
                                 focused |-> JBool(FALSE),
                                 nodes |-> JArr(nodes),
                                 floating_nodes |-> JArr(floating)])>>)])

WinShUpper(f) == Win(str_con, [name |-> JStr(<<83, 72>>), focused |-> JBool(f)])

WinSh(f) == Win(str_floating_con,
                [name |-> JStr(<<115, 104>>), app_id |-> JStr(<<102, 111, 111, 116>>),
                 focused |-> JBool(f)])

WinOb(f) == Win(str_con, [name |-> JStr(<<110>>), app_id |-> JStr(<<111, 98>>),
                          focused |-> JBool(f)])

WinKp(f) == Win(str_con, [name |-> JStr(<<107>>), app_id |-> JNull,
                          window_properties |-> JObj([class |-> JStr(<<107, 112>>)]),
                          focused |-> JBool(f)])

WinNoFocus == Win(str_con, [name |-> JStr(<<115, 104>>)])

Snapshots ==
    { Root(<<>>, <<>>),
      Root(<<WinShUpper(FALSE), WinOb(TRUE)>>, <<>>),
      Root(<<WinOb(FALSE), WinKp(FALSE)>>, <<WinSh(TRUE)>>),
      Root(<<WinKp(TRUE), WinSh(FALSE)>>, <<WinSh(TRUE)>>),
      Root(<<WinNoFocus>>, <<>>),
      JNull }

(* What `swaymsg -t get_tree` gives: it cannot be started, or it ran and   *)
(* wrote something that is not a JSON document, or it wrote a tree.        *)
GetTreeResults ==
    {[started |-> FALSE, stdout |-> [parses |-> FALSE, tree |-> JNull]],
     [started |-> TRUE, stdout |-> [parses |-> FALSE, tree |-> JNull]]}
    \cup {[started |-> TRUE, stdout |-> [parses |-> TRUE, tree |-> t]] :
              t \in Snapshots}

(* What a swaymsg run with a command gives: it cannot be started, or it    *)
(* ran and the window manager refused the command (exit status not zero),  *)
(* or it ran and the command was carried out.                              *)
CommandResults == {"not_started", "refused", "done"}

(* main, lines 233-236: report the error of handle_window and exit(1) *)
main_error(p, message) ==
    /\ stderr' = [stderr EXCEPT ![p] = Append(@, message)]
    /\ exit_code' = [exit_code EXCEPT ![p] = 1]
    /\ pc' = [pc EXCEPT ![p] = "done"]

(* main, falling off its end after handle_window returned Ok *)
main_ok(p) ==
    /\ exit_code' = [exit_code EXCEPT ![p] = 0]
    /\ pc' = [pc EXCEPT ![p] = "done"]
    /\ UNCHANGED stderr

Init ==
    /\ args = <<>>
    /\ ret = NotApplied
    /\ config_file \in ConfigFileStates
    /\ app_name \in [Procs -> AppNames]
    /\ pc = [p \in Procs |-> "new"]
    /\ windows = [p \in Procs |-> <<>>]
    /\ ipc = <<>>
    /\ stderr = [p \in Procs |-> <<>>]
    /\ exit_code = [p \in Procs |-> -1]

(* main up to the call of handle_window: Cli::parse and Spawn::new *)
New(p) ==
    /\ pc[p] = "new"
    /\ IF config_file = "invalid"
       THEN /\ stderr' = [stderr EXCEPT ![p] = Append(@, "panicked")]
            /\ exit_code' = [exit_code EXCEPT ![p] = 101]
            /\ pc' = [pc EXCEPT ![p] = "done"]
       ELSE /\ stderr' = [stderr EXCEPT ![p] =
                              IF config_file = "missing"
                              THEN Append(@, "Config is not a file") ELSE @]
            /\ pc' = [pc EXCEPT ![p] = "handle_window"]
            /\ UNCHANGED exit_code
    /\ UNCHANGED <<args, ret, config_file, app_name, windows, ipc>>

(* handle_window, the lookup of the application *)
Lookup(p) ==
    /\ pc[p] = "handle_window"
    /\ IF app_name[p] \in DOMAIN spawn_new(config_file).apps
       THEN /\ pc' = [pc EXCEPT ![p] = "get_windows"]
            /\ UNCHANGED <<stderr, exit_code>>
       ELSE main_error(p, "Error: Unknown application")
    /\ UNCHANGED <<args, ret, config_file, app_name, windows, ipc>>

(* handle_window's call of get_windows, with errors taken for an empty      *)
(* window list                                                              *)
GetWindowsIgnoringErrors(p) ==
    /\ pc[p] = "get_windows"
    /\ \E r \in GetTreeResults :
          LET got == IF r.started THEN get_windows_of(r.stdout) ELSE Err
          IN  /\ ipc' = Append(ipc, [proc |-> p, args |-> <<str_dash_t, str_get_tree>>,
                                     result |-> IF ~r.started THEN "not_started"
                                                ELSE IF got.ok THEN "tree"
                                                ELSE "unparsable"])
              /\ windows' = [windows EXCEPT ![p] = IF got.ok THEN got.v ELSE <<>>]
              /\ pc' = [pc EXCEPT ![p] = "decide"]
              /\ UNCHANGED <<stderr, exit_code>>
    /\ UNCHANGED <<args, ret, config_file, app_name>>

(* handle_window's call of get_windows: one swaymsg run, then the parse and *)
(* the walk; either error goes to main                                      *)
GetWindows(p) ==
    /\ pc[p] = "get_windows"
    /\ \E r \in GetTreeResults :
          LET got == IF r.started THEN get_windows_of(r.stdout) ELSE Err
          IN  /\ ipc' = Append(ipc, [proc |-> p, args |-> <<str_dash_t, str_get_tree>>,
                                     result |-> IF ~r.started THEN "not_started"
                                                ELSE IF got.ok THEN "tree"
                                                ELSE "unparsable"])
              /\ IF got.ok
                 THEN /\ windows' = [windows EXCEPT ![p] = got.v]
                      /\ pc' = [pc EXCEPT ![p] = "decide"]
                      /\ UNCHANGED <<stderr, exit_code>>
                 ELSE /\ main_error(p, IF r.started THEN "Error: json" ELSE "Error: io")
                      /\ UNCHANGED windows
    /\ UNCHANGED <<args, ret, config_file, app_name>>

(* focus_window and move_to_scratchpad: the arguments of their swaymsg run *)
focus_window(identifier) == <<build_criteria(identifier) \o str_focus>>

move_to_scratchpad(identifier) ==
    <<build_criteria(identifier) \o str_move_scratchpad>>

(* handle_window, lines 211-223: the arguments of the one swaymsg run *)
handle_window_command(self, config, ws) ==
    LET state == aggregate_state(ws, config.identifier)
    IN  CASE state = "PresentFocused" -> move_to_scratchpad(config.identifier)
          [] state = "PresentUnfocused" -> focus_window(config.identifier)
          [] state = "Absent" -> <<str_exec, build_startup_command(self, config)>>

IsGetTree(e) == e.args = <<str_dash_t, str_get_tree>>

IsLaunch(e) == Len(e.args) = 2 /\ e.args[1] = str_exec

(* handle_window's last step made to look again: no launch when another     *)
(* invocation has launched the same command meanwhile                       *)
DispatchUnlessLaunched(p) ==
    /\ pc[p] = "decide"
    /\ LET self == spawn_new(config_file)
           command == handle_window_command(self, self.apps[app_name[p]], windows[p])
       IN  IF \E i \in 1..Len(ipc) : ipc[i].args = command /\ IsLaunch(ipc[i])
           THEN /\ main_ok(p)
                /\ UNCHANGED ipc
           ELSE \E r \in CommandResults :
                   /\ ipc' = Append(ipc, [proc |-> p, args |-> command, result |-> r])
                   /\ IF r = "not_started" THEN main_error(p, "Error: io")
                                           ELSE main_ok(p)
    /\ UNCHANGED <<args, ret, config_file, app_name, windows>>

(* handle_window, lines 211-225: decide on the snapshot taken earlier, run  *)
(* swaymsg once with the command; only a run that cannot be started is an   *)
(* error, the exit status of swaymsg is not looked at                       *)
Dispatch(p) ==
    /\ pc[p] = "decide"
    /\ LET self == spawn_new(config_file)
           command == handle_window_command(self, self.apps[app_name[p]], windows[p])
       IN  \E r \in CommandResults :
              /\ ipc' = Append(ipc, [proc |-> p, args |-> command, result |-> r])
              /\ IF r = "not_started" THEN main_error(p, "Error: io")
                                      ELSE main_ok(p)
    /\ UNCHANGED <<args, ret, config_file, app_name, windows>>

Next == \E p \in Procs : New(p) \/ Lookup(p) \/ GetWindows(p) \/ Dispatch(p)

Spec == Init /\ [][Next]_vars

----------------------------------------------------------------------------
(* Properties of the pure functions *)

(* The field of w that the variant of the identifier selects *)
SelectedField(w, identifier) ==
    CASE identifier.kind = "Title" -> w.title
      [] identifier.kind = "AppId" -> w.app_id
      [] identifier.kind = "Class" ->
            IF w.window_properties.some THEN w.window_properties.v.class
                                        ELSE None

UpperFold(c) == IF c \in 97..122 THEN c - 32 ELSE c

EqualUpToAsciiCase(a, b) ==
    /\ Len(a) = Len(b)
    /\ \A i \in 1..Len(a) : UpperFold(a[i]) = UpperFold(b[i])

\* C5: matches_identifier(w, id) is true exactly when the field selected by
\* id's variant (title, app_id, or class under window_properties) is present
\* and equals id's value as a whole string up to ASCII letter case; an absent
\* field or properties block gives false, and no other field matters.
C5_MatchesIffSelectedFieldEqual ==
    ret.done =>
        LET field == SelectedField(args.w, args.identifier)
        IN  /\ ret.v \in BOOLEAN
            /\ ret.v <=> (field.some
                          /\ EqualUpToAsciiCase(field.v, args.identifier.value))

\* C5 witness: a Class identifier matched against a class that differs from
\* it in letter case only, on a window with neither title nor app_id.
C5_Witness ==
    /\ ret.done /\ ret.v = TRUE
    /\ args.identifier.kind = "Class"
    /\ args.w.window_properties.some
    /\ args.w.window_properties.v.class.some
    /\ args.w.window_properties.v.class.v # args.identifier.value
    /\ ~args.w.title.some /\ ~args.w.app_id.some

\* C2: the state derived by is_running / is_focused is one of the three
\* states: Absent iff no window matches; otherwise PresentFocused iff some
\* matching window is focused; otherwise PresentUnfocused.  Focus of a window
\* that does not match has no influence.
C2_StateIsTotalAndIsolated ==
    ret.done =>
        LET ws == args.windows
            M == {i \in 1..Len(ws) : matches_identifier(ws[i], args.identifier)}
        IN  /\ ret.v \in {"Absent", "PresentFocused", "PresentUnfocused"}
            /\ ret.v = "Absent" <=> M = {}
            /\ ret.v = "PresentFocused" <=> \E i \in M : ws[i].focused
            /\ ret.v = "PresentUnfocused" <=>
                   (M # {} /\ \A i \in M : ~ws[i].focused)

\* C2 witness: PresentUnfocused although two windows that do not match are
\* focused.
C2_Witness ==
    /\ ret.done /\ ret.v = "PresentUnfocused"
    /\ \E i, j \in 1..Len(args.windows) :
          /\ i # j
          /\ args.windows[i].focused /\ args.windows[j].focused
          /\ ~matches_identifier(args.windows[i], args.identifier)
          /\ ~matches_identifier(args.windows[j], args.identifier)

\* C6: the launch command is the override verbatim when one is set; else,
\* for a terminal application identified by title, the terminal program,
\* " --title ", the title, " --command " and the configured command; else the
\* configured command unmodified.
C6_StartupCommandPriority ==
    ret.done =>
        LET c == args.config
            hosted == c.is_terminal /\ c.identifier.kind = "Title"
        IN  /\ c.startup_override.some => ret.v = c.startup_override.v
            /\ (~c.startup_override.some /\ hosted) =>
                   ret.v = args.self.terminal \o str_opt_title
                               \o c.identifier.value \o str_opt_command \o c.command
            /\ (~c.startup_override.some /\ ~hosted) => ret.v = c.command

\* C6 witness: a terminal application identified by title whose override is
\* set and differs from what the terminal wrapping would give.
C6_Witness ==
    /\ ret.done
    /\ args.config.startup_override.some
    /\ args.config.is_terminal /\ args.config.identifier.kind = "Title"
    /\ ret.v = args.config.startup_override.v
    /\ ret.v # args.config.command

(* The nodes of the flat tree f that must yield a record *)
WindowNodes(f) == {j \in 1..Len(f) : f[j].kind.win.some}

(* Node j sits below node i *)
RECURSIVE Below(_, _, _)
Below(f, j, i) ==
    IF j = 0 THEN FALSE
    ELSE f[j].parent = i \/ Below(f, f[j].parent, i)

\* C3: extract_windows returns exactly one record per node whose type is
\* "con" or "floating_con" and that decodes as a window, wherever the node
\* sits in "nodes" and "floating_nodes" lists; other nodes contribute nothing.
C3_ExactlyOneRecordPerWindowNode ==
    ret.done =>
        /\ ret.v.ok
        /\ Len(ret.v.v) = Cardinality(WindowNodes(args.flat))
        /\ \A k \in NodeKinds :
              k.win.some =>
                  Count(ret.v.v, k.win.v)
                      = Cardinality({j \in 1..Len(args.flat) : args.flat[j].kind = k})

\* C3 witness: a window found through a "floating_nodes" list inside a
\* "nodes" list of a root that is no window.
C3_Witness ==
    /\ ret.done
    /\ Len(args.flat) >= 3
    /\ ~args.flat[1].kind.bearing
    /\ \E i, j \in 2..Len(args.flat) :
          /\ args.flat[i].parent = 1 /\ args.flat[i].list = "nodes"
          /\ ~args.flat[i].kind.win.some
          /\ args.flat[j].parent = i /\ args.flat[j].list = "floating_nodes"
          /\ args.flat[j].kind.win.some
          /\ ret.v.v = <<args.flat[j].kind.win.v>>

(* The window-bearing nodes of f that do not decode *)
MalformedNodes(f) ==
    {j \in 1..Len(f) : f[j].kind.bearing /\ ~f[j].kind.win.some}

\* C4: with a malformed window-bearing node in the tree, get_windows is
\* still Ok and still holds the record of every well-formed window-bearing
\* node, those below the malformed node included.
C4_MalformedNodeIsSkipped ==
    (ret.done /\ MalformedNodes(args.flat) # {}) =>
        /\ ret.v.ok
        /\ \A j \in WindowNodes(args.flat) :
              args.flat[j].kind.win.v \in Range(ret.v.v)

\* C4 witness: a well-formed window below a malformed window-bearing node,
\* returned as the only record.
C4_Witness ==
    /\ ret.done /\ ret.v.ok
    /\ \E i \in MalformedNodes(args.flat) : \E j \in WindowNodes(args.flat) :
          /\ Below(args.flat, j, i)
          /\ ret.v.v = <<args.flat[j].kind.win.v>>

----------------------------------------------------------------------------
(* Properties of an invocation *)

(* The swaymsg runs of invocation p, and those among them that carry a     *)
(* command (anything but the tree query)                                   *)
RunsOf(p) == SelectSeq(ipc, LAMBDA e : e.proc = p)

DispatchesOf(p) == SelectSeq(ipc, LAMBDA e : e.proc = p /\ ~IsGetTree(e))

PredicateName(kind) ==
    CASE kind = "Title" -> <<116, 105, 116, 108, 101>>           \* title
      [] kind = "AppId" -> <<97, 112, 112, 95, 105, 100>>        \* app_id
      [] kind = "Class" -> <<99, 108, 97, 115, 115>>             \* class

(* [<predicate>="<value>"] *)
Selector(identifier) ==
    <<91>> \o PredicateName(identifier.kind) \o <<61, 34>>
        \o identifier.value \o <<34, 93>>

\* C1: an invocation of handle_window that succeeds has dispatched exactly
\* one command: exec with the startup command when no window of its snapshot
\* matches the identifier, "<selector> focus" when one matches and no matching
\* one is focused, "<selector> move scratchpad" when a matching one is
\* focused; the selector is [title="v"], [app_id="v"] or [class="v"] by the
\* variant of the identifier.
C1_ExactlyOneCommandByState ==
    \A p \in Procs :
        (pc[p] = "done" /\ exit_code[p] = 0) =>
            LET config == ConfigFile.apps[app_name[p]]
                id == config.identifier
                ws == windows[p]
                M == {i \in 1..Len(ws) : matches_identifier(ws[i], id)}
                d == DispatchesOf(p)
            IN  /\ Len(d) = 1
                /\ M = {} =>
                      d[1].args = <<str_exec, build_startup_command(ConfigFile, config)>>
                /\ (M # {} /\ \A i \in M : ~ws[i].focused) =>
                      d[1].args = <<Selector(id) \o str_focus>>
                /\ (\E i \in M : ws[i].focused) =>
                      d[1].args = <<Selector(id) \o str_move_scratchpad>>

\* C1 witness: the application identified by class "Kp", focused in the
\* snapshot, has been sent to the scratchpad.
C1_Witness ==
    \E p \in Procs :
        /\ pc[p] = "done" /\ exit_code[p] = 0
        /\ app_name[p] = "keepassxc"
        /\ Len(DispatchesOf(p)) = 1
        /\ DispatchesOf(p)[1].args =
               << <<91, 99, 108, 97, 115, 115, 61, 34, 75, 112, 34, 93>>
                      \o str_move_scratchpad >>

\* C7: when the dispatch of the chosen command cannot be executed, or is
\* executed and refused by the window manager, the invocation reports an
\* error and ends with a non-zero exit status, having dispatched once.
C7_DispatchFailureIsFatal ==
    \A p \in Procs :
        (/\ pc[p] = "done"
         /\ \E i \in 1..Len(DispatchesOf(p)) :
               DispatchesOf(p)[i].result \in {"not_started", "refused"}) =>
            /\ exit_code[p] # 0
            /\ Len(stderr[p]) >= 1
            /\ Len(DispatchesOf(p)) = 1

(* The application of p is not in the loaded configuration *)
UnknownApplication(p) == app_name[p] \notin DOMAIN spawn_new(config_file).apps

(* The tree query of p could not be run or its output did not parse *)
FetchFailed(p) ==
    \E i \in 1..Len(RunsOf(p)) :
        IsGetTree(RunsOf(p)[i]) /\ RunsOf(p)[i].result # "tree"

\* C8: an invocation whose application is not configured runs swaymsg not
\* at all, one whose tree query fails or does not parse dispatches no
\* command; both end with a non-zero exit status.
C8_NoDispatchAfterEarlyFailure ==
    \A p \in Procs :
        /\ UnknownApplication(p) =>
              /\ RunsOf(p) = <<>>
              /\ pc[p] = "done" => exit_code[p] # 0
        /\ FetchFailed(p) =>
              /\ DispatchesOf(p) = <<>>
              /\ pc[p] = "done" /\ exit_code[p] # 0

\* C8 witness: an invocation ended with status 1 after a tree query whose
\* output did not parse, its only swaymsg run.
C8_Witness ==
    \E p \in Procs :
        /\ pc[p] = "done" /\ exit_code[p] = 1
        /\ Len(RunsOf(p)) = 1
        /\ RunsOf(p)[1].result = "unparsable"

(* Some fatal error happened in invocation p *)
Failed(p) ==
    \/ config_file # "valid"
    \/ UnknownApplication(p)
    \/ FetchFailed(p)
    \/ \E i \in 1..Len(DispatchesOf(p)) : DispatchesOf(p)[i].result # "done"

\* C9: a failing invocation writes exactly one error message and exits with
\* a non-zero status; a successful one exits with 0 and writes none.
C9_OneMessagePerFailure ==
    \A p \in Procs :
        pc[p] = "done" =>
            IF Failed(p) THEN exit_code[p] # 0 /\ Len(stderr[p]) = 1
                         ELSE exit_code[p] = 0 /\ Len(stderr[p]) = 0

(* Position in ipc of the tree query of p, and of its command *)
FetchAt(p) == CHOOSE i \in 1..Len(ipc) : ipc[i].proc = p /\ IsGetTree(ipc[i])

DispatchAt(p) == CHOOSE i \in 1..Len(ipc) : ipc[i].proc = p /\ ~IsGetTree(ipc[i])

\* C10: two invocations for the same application whose snapshots both show
\* it absent both dispatch the exec launch command, whatever the other has
\* dispatched in between: nothing is looked at again after the snapshot.
C10_BothAbsentBothLaunch ==
    \A p, q \in Procs :
        (/\ p # q
         /\ pc[p] = "done" /\ pc[q] = "done"
         /\ exit_code[p] = 0 /\ exit_code[q] = 0
         /\ app_name[p] = app_name[q]
         /\ ~is_running(windows[p], ConfigFile.apps[app_name[p]].identifier)
         /\ ~is_running(windows[q], ConfigFile.apps[app_name[q]].identifier)) =>
            /\ Len(DispatchesOf(p)) = 1 /\ Len(DispatchesOf(q)) = 1
            /\ IsLaunch(DispatchesOf(p)[1]) /\ IsLaunch(DispatchesOf(q)[1])
            /\ DispatchesOf(p)[1].args = DispatchesOf(q)[1].args

\* C10 witness: both invocations took the same snapshot before either
\* dispatched, and both launches were carried out.
C10_Witness ==
    /\ \A p \in Procs : pc[p] = "done" /\ exit_code[p] = 0
    /\ app_name["p1"] = app_name["p2"]
    /\ windows["p1"] = windows["p2"]
    /\ Len(ipc) = 4
    /\ \A p, q \in Procs : FetchAt(p) < DispatchAt(q)
    /\ \A p \in Procs : IsLaunch(ipc[DispatchAt(p)]) /\ ipc[DispatchAt(p)].result = "done"

=============================================================================
